---- MODULE Spec2Model ----
(***************************************************************************)
(* Model of the Duo auth API client (src/src/client.rs).                   *)
(*                                                                         *)
(* One client handle is constructed by DuoClient::new; every element of    *)
(* Calls is one invocation of check, preauth or auth on that handle.  Each *)
(* .await of the source is a step boundary: a request is put in flight,    *)
(* and a later step receives the upstream's response and runs the code up  *)
(* to the next .await or return.                                           *)
(***************************************************************************)
EXTENDS Integers, Sequences, FiniteSets, TLC

VARIABLES
    client,     \* outcome of DuoClient::new and the DuoClientInner it built
    pc,         \* per call: position of the future
    op,         \* per call: the public operation invoked
    txid,       \* per call: local `txid` of auth (line 100)
    status,     \* per call: value of the last request_auth_status(..).await
    result,     \* per call: value the future resolved to
    inflight,   \* per call: requests handed to the transport, not answered yet
    last,       \* per call: the response received last, with its endpoint
    nStart,     \* per call: number of POST /auth/v2/auth requests issued
    nStatus,    \* per call: number of GET /auth/v2/auth_status requests issued
    hist,       \* per call: the status responses received, in order
    granted,    \* per call: the txid of the start response auth accepted
    polled,     \* per call: the txids its status requests were made with
    stdout,     \* bodies printed by println!
    paramSet,   \* a Parameters value being filled by set()
    signedReq,  \* the signed request built from paramSet
    nReq,       \* per call: number of requests handed to client.execute
    slept       \* per call: seconds of tokio::time::sleep begun

\* the Parameters and the request of the signing specification
signing == <<paramSet, signedReq>>

vars == <<client, pc, op, txid, status, result, inflight, last,
          nStart, nStatus, hist, granted, polled, stdout, signing,
          nReq, slept>>

(***************************************************************************)
(* Bounds of the model.                                                    *)
(***************************************************************************)
NumCalls == 2       \* concurrent invocations on the one client handle
MaxWaiting == 2     \* pending answers the upstream gives one auth call
MaxShare == 1       \* share_n ranges over 0..MaxShare

\* line 106: Duration::from_secs(2)
SleepSecs == 2

Calls == 1..NumCalls
Users == {"alice"}
ShareNs == 0..MaxShare

(***************************************************************************)
(* Values returned by the operations: Result<T, Error> for the T of each   *)
(* operation.  One record shape for all of them: tag names the variant     *)
(* (or, for an error, where the Error came from), n, s and b carry the     *)
(* u64, String and bool payloads.                                          *)
(***************************************************************************)
R(kind, tag, n, s, b) == [kind |-> kind, tag |-> tag, n |-> n, s |-> s, b |-> b]

NoResult == R("none", "", 0, "", FALSE)
OkU64(n) == R("ok", "u64", n, "", FALSE)
OkString(s) == R("ok", "String", 0, s, FALSE)
OkBool(b) == R("ok", "bool", 0, "", b)
OkNone == R("ok", "None", 0, "", FALSE)
OkSome(b) == R("ok", "Some", 0, "", b)

\* a transport error whose text holds the signing key of the request
ErrTransportWithKey == R("err", "transport", 0, client.skey, FALSE)

\* `?` on client.execute(..).await: reqwest::Error of the transport
ErrTransport == R("err", "transport", 0, "", FALSE)
\* `?` on response.json().await: reqwest::Error of the decoder
ErrDecode == R("err", "decode", 0, "", FALSE)
\* Error::from(format!("status code={}", status))
ErrStatusCode(code) == R("err", "status code", code, "", FALSE)
\* Error::from(format!("unexpected result '{}'", v))
ErrUnexpectedResult(v) == R("err", "unexpected result", 0, v, FALSE)
\* `?` on Url::parse: url::ParseError
ErrUrlParse(why) == R("err", "url parse", 0, why, FALSE)

(***************************************************************************)
(* DuoClient::new                                                          *)
(***************************************************************************)
ApiDomains == {"https://api-1234.duosecurity.com", "/auth/v2", "https://",
               "mailto:ops@example.com", "unix:/run/duo.sock"}
IKeys == {"DIXXXXXXXXXXXXXXXXXX"}
SKeys == {"skey-1"}

NoUrl == [ok |-> FALSE, why |-> "", hasHost |-> FALSE, host |-> ""]

\* Url::parse and Url::host_str on the inputs of ApiDomains: a string with no
\* scheme is a relative URL, "https://" has an empty host, and a URL of a
\* non-special scheme without "//" parses and has no host.
UrlParse(s) ==
    CASE s = "https://api-1234.duosecurity.com" ->
            [ok |-> TRUE, why |-> "", hasHost |-> TRUE,
             host |-> "api-1234.duosecurity.com"]
      [] s = "/auth/v2" ->
            [ok |-> FALSE, why |-> "RelativeUrlWithoutBase", hasHost |-> FALSE,
             host |-> ""]
      [] s = "https://" ->
            [ok |-> FALSE, why |-> "EmptyHost", hasHost |-> FALSE, host |-> ""]
      [] OTHER ->
            [ok |-> TRUE, why |-> "", hasHost |-> FALSE, host |-> ""]

Unbuilt == [state |-> "unbuilt", api_domain |-> "", base_url |-> NoUrl,
            ikey |-> "", skey |-> "", err |-> NoResult]

\* The value of `client` after DuoClient::new(api_domain, ikey, skey):
\* "err" is a returned Err, "panic" is the .expect of line 39 firing,
\* "ok" is a returned client.
NewOutcome(api_domain, ikey, skey) ==
    LET base_url == UrlParse(api_domain) IN
    IF ~base_url.ok
    THEN [Unbuilt EXCEPT !.state = "err", !.api_domain = api_domain,
                         !.err = ErrUrlParse(base_url.why)]
    ELSE IF ~base_url.hasHost
    THEN [Unbuilt EXCEPT !.state = "panic", !.api_domain = api_domain]
    ELSE [state |-> "ok", api_domain |-> api_domain, base_url |-> base_url,
          ikey |-> ikey, skey |-> skey, err |-> NoResult]

New ==
    /\ client.state = "unbuilt"
    /\ \E d \in ApiDomains, ik \in IKeys, sk \in SKeys :
          client' = NewOutcome(d, ik, sk)
    /\ UNCHANGED <<pc, op, txid, status, result, inflight, last,
                   nStart, nStatus, hist, granted, polled, stdout, signing,
                   nReq, slept>>

(***************************************************************************)
(* Responses of the upstream, as the transport hands them to the client.   *)
(*   delivered  execute(..).await returned Ok                              *)
(*   code       HTTP status code                                           *)
(*   json       the body is valid JSON                                     *)
(*   stat       the envelope's `stat` member, "" when there is none        *)
(*   shape      which payload struct the `response` member deserializes    *)
(*              into, "" when there is no such member                      *)
(*   time, txid, result, preauth   the members of that payload             *)
(***************************************************************************)
Resp(delivered, code, json, stat, shape, time, tx, res, pre) ==
    [delivered |-> delivered, code |-> code, json |-> json, stat |-> stat,
     shape |-> shape, time |-> time, txid |-> tx, result |-> res,
     preauth |-> pre]

TransportFailure == Resp(FALSE, 0, FALSE, "", "", 0, "", "", "")
NotJson(code) == Resp(TRUE, code, FALSE, "", "", 0, "", "", "")
\* {"stat": .., "code": .., "message": ..}: an envelope with no `response`
NoPayload(code, stat) == Resp(TRUE, code, TRUE, stat, "", 0, "", "", "")
CheckBody(code, stat, t) == Resp(TRUE, code, TRUE, stat, "check", t, "", "", "")
PreauthBody(code, stat, p) ==
    Resp(TRUE, code, TRUE, stat, "preauth", 0, "", "", p)
AuthBody(code, stat, tx) == Resp(TRUE, code, TRUE, stat, "auth", 0, tx, "", "")
StatusBody(code, stat, res) ==
    Resp(TRUE, code, TRUE, stat, "auth_status", 0, "", res, "")

StatusOK == 200     \* StatusCode::OK

ErrorCodes == {400}
Times == {1700000000}
\* the upstream names every challenge it starts differently: the txid it
\* gives to the start request of call c
Txid(c) == "tx-" \o ToString(c)
Results == {"waiting", "allow", "deny", "bogus"}
Preauths == {"auth"}

\* Answers the upstream may give on any endpoint: no answer at all, a body
\* that is no JSON, an envelope with neither `stat` nor `response`, and the
\* error envelope under an error status.
CommonResponses ==
    {TransportFailure, NotJson(StatusOK), NoPayload(StatusOK, "")}
        \cup {NotJson(e) : e \in ErrorCodes}
        \cup {NoPayload(e, "FAIL") : e \in ErrorCodes}

\* What the upstream may answer call c on each endpoint: besides the common
\* answers, the endpoint's payload under 200 with stat "OK", the same
\* payload under 200 with stat "FAIL" and under an error status, and (to a
\* start request) the payload of another endpoint.
Responses(ep, c) ==
    CommonResponses \cup
    CASE ep = "check" ->
            {CheckBody(StatusOK, "OK", t) : t \in Times}
                \cup {CheckBody(StatusOK, "FAIL", t) : t \in Times}
                \cup {CheckBody(e, "OK", t) : e \in ErrorCodes, t \in Times}
      [] ep = "preauth" ->
            {PreauthBody(StatusOK, "OK", p) : p \in Preauths}
                \cup {PreauthBody(StatusOK, "FAIL", p) : p \in Preauths}
                \cup {PreauthBody(e, "OK", p) : e \in ErrorCodes, p \in Preauths}
      [] ep = "auth" ->
            {AuthBody(StatusOK, "OK", Txid(c)),
             AuthBody(StatusOK, "FAIL", Txid(c)),
             StatusBody(StatusOK, "OK", "allow")}
                \cup {AuthBody(e, "OK", Txid(c)) : e \in ErrorCodes}
      [] ep = "auth_status" ->
            {StatusBody(StatusOK, "OK", r) : r \in Results}
                \cup {StatusBody(StatusOK, "FAIL", "allow")}
                \cup {StatusBody(e, "OK", "allow") : e \in ErrorCodes}

NoResponse == [ep |-> "", resp |-> TransportFailure]

(***************************************************************************)
(* Decoding, as serde does it for the types of the source.                 *)
(***************************************************************************)
\* response.json::<serde_json::Value>(): any valid JSON decodes
DecodesAsValue(resp) == resp.json

\* response.json::<DuoResponse<T>>(): `response: T` and `stat: String` are
\* required members, `code` and `message` are optional
DecodesAsDuoResponse(resp, shape) ==
    /\ resp.json
    /\ resp.stat # ""
    /\ resp.shape = shape

(***************************************************************************)
(* Requests.  Parameters and DuoRequest live in request.rs; a request is   *)
(* kept as what the transport is handed: method, host, path, the           *)
(* parameters in the order they were set, and the integration key.         *)
(***************************************************************************)
\* Parameters::set: insert, or overwrite the value of a key already set
ParametersSet(parameters, name, value) ==
    IF \E i \in 1..Len(parameters) : parameters[i][1] = name
    THEN [i \in 1..Len(parameters) |->
             IF parameters[i][1] = name THEN <<name, value>> ELSE parameters[i]]
    ELSE Append(parameters, <<name, value>>)

\* DuoRequest::new(base_url, method, path, parameters).build(client, ikey, skey)
DuoRequestBuild(this, method, path, parameters) ==
    [method |-> method, host |-> this.base_url.host, path |-> path,
     parameters |-> parameters, ikey |-> this.ikey]

\* lines 55-61
CheckRequest(this) == DuoRequestBuild(this, "GET", "/auth/v2/check", <<>>)

\* lines 117-126
PreauthRequest(this, user_id) ==
    DuoRequestBuild(this, "POST", "/auth/v2/preauth",
                    ParametersSet(<<>>, "user_id", user_id))

\* lines 146-160
AuthRequest(this, user_id, share_n) ==
    LET p1 == ParametersSet(<<>>, "user_id", user_id)
        p2 == ParametersSet(p1, "factor", "auto")
        p3 == ParametersSet(p2, "async", "1")
        p4 == ParametersSet(p3, "type", "Authorize share")
        p5 == ParametersSet(p4, "device", "auto")
        p6 == ParametersSet(p5, "display_username",
                            "Share " \o ToString(share_n))
    IN  DuoRequestBuild(this, "POST", "/auth/v2/auth", p6)

\* lines 185-194
AuthStatusRequest(this, tx) ==
    DuoRequestBuild(this, "GET", "/auth/v2/auth_status",
                    ParametersSet(<<>>, "txid", tx))

\* the value of parameter `name` of a request, "" when it is not set
Param(request, name) ==
    LET hits == {i \in 1..Len(request.parameters) :
                    request.parameters[i][1] = name}
    IN  IF hits = {} THEN ""
        ELSE request.parameters[CHOOSE i \in hits : TRUE][2]

(***************************************************************************)
(* Signing, as DuoRequest::build does it (request.rs): the parameters are  *)
(* URL-encoded and sorted by key into the canonical query string, which    *)
(* with the date, method, host and path makes the canonical string; the    *)
(* signature is the HMAC of the canonical string under the secret key.     *)
(***************************************************************************)
\* the names request_auth and request_auth_status set, in lexicographic order
ParamNames ==
    <<"async", "device", "display_username", "factor", "txid", "type",
      "user_id">>

\* the place of a parameter name in the lexicographic order
NameRank(name) == CHOOSE i \in 1..Len(ParamNames) : ParamNames[i] = name

\* percent-encoding of the values the client sends: a space becomes %20,
\* letters, digits, '-' and '_' stay
UrlEncode(v) ==
    IF v = "Authorize share" THEN "Authorize%20share"
    ELSE IF \E n \in ShareNs : v = "Share " \o ToString(n)
    THEN "Share%20" \o ToString(CHOOSE n \in ShareNs :
                                    v = "Share " \o ToString(n))
    ELSE v

RECURSIVE InsertByKey(_, _)
InsertByKey(sorted, pair) ==
    IF sorted = <<>> THEN <<pair>>
    ELSE IF NameRank(pair[1]) < NameRank(Head(sorted)[1])
    THEN <<pair>> \o sorted
    ELSE <<Head(sorted)>> \o InsertByKey(Tail(sorted), pair)

RECURSIVE SortByKey(_)
SortByKey(pairs) ==
    IF pairs = <<>> THEN <<>>
    ELSE InsertByKey(SortByKey(Tail(pairs)), Head(pairs))

\* the canonical query string with the sort left out
CanonicalQueryUnsorted(parameters) ==
    [i \in 1..Len(parameters) |->
        <<UrlEncode(parameters[i][1]), UrlEncode(parameters[i][2])>>]

\* the sorted, URL-encoded query string, kept as its sequence of
\* name=value items
CanonicalQuery(parameters) ==
    SortByKey([i \in 1..Len(parameters) |->
                  <<UrlEncode(parameters[i][1]), UrlEncode(parameters[i][2])>>])

\* date, method, host, path and query, the lines of the canonical string
CanonicalString(date, method, host, path, parameters) ==
    <<date, method, host, path, CanonicalQuery(parameters)>>

\* the keyed hash, kept symbolic: equal exactly when key and message are
Hmac(key, message) == [key |-> key, message |-> message]

Signature(this, date, method, path, parameters) ==
    Hmac(this.skey,
         CanonicalString(date, method, this.base_url.host, path, parameters))

\* the request with its Date header, its query string or body, and the
\* signature of its Authorization header
SignedRequest(this, date, method, path, parameters) ==
    [built |-> TRUE,
     request |-> DuoRequestBuild(this, method, path, parameters),
     date |-> date,
     query |-> CanonicalQuery(parameters),
     signature |-> Signature(this, date, method, path, parameters)]

NoSigned ==
    [built |-> FALSE,
     request |-> [method |-> "", host |-> "", path |-> "",
                  parameters |-> <<>>, ikey |-> ""],
     date |-> "", query |-> <<>>,
     signature |-> Hmac("", <<"", "", "", "", <<>>>>)]

(***************************************************************************)
(* What each operation makes of the response to its request.               *)
(***************************************************************************)
\* The non-200 branch got as far as println!("err body={:?}", errbody)
ErrBodyPrinted(resp) ==
    /\ resp.delivered
    /\ resp.code # StatusOK
    /\ DecodesAsValue(resp)

\* check returning the member `code` of the envelope, which a success
\* envelope does not have, instead of response.time
CheckResultCode(resp) ==
    IF ~resp.delivered THEN ErrTransport
    ELSE IF resp.code # StatusOK
         THEN IF ~DecodesAsValue(resp) THEN ErrDecode
              ELSE ErrStatusCode(resp.code)
    ELSE IF ~DecodesAsDuoResponse(resp, "check") THEN ErrDecode
    ELSE OkU64(0)

\* check, lines 63-79
CheckResult(resp) ==
    IF ~resp.delivered THEN ErrTransport
    ELSE IF resp.code # StatusOK
         THEN IF ~DecodesAsValue(resp) THEN ErrDecode
              ELSE ErrStatusCode(resp.code)
    ELSE IF ~DecodesAsDuoResponse(resp, "check") THEN ErrDecode
    ELSE OkU64(resp.time)

\* request_preauth, lines 128-138
PreauthResult(resp) ==
    IF ~resp.delivered THEN ErrTransport
    ELSE IF resp.code # StatusOK
         THEN IF ~DecodesAsValue(resp) THEN ErrDecode
              ELSE ErrStatusCode(resp.code)
    ELSE IF ~DecodesAsDuoResponse(resp, "preauth") THEN ErrDecode
    ELSE OkString(resp.preauth)

\* request_auth, lines 162-178
RequestAuthResult(resp) ==
    IF ~resp.delivered THEN ErrTransport
    ELSE IF resp.code # StatusOK
         THEN IF ~DecodesAsValue(resp) THEN ErrDecode
              ELSE ErrStatusCode(resp.code)
    ELSE IF ~DecodesAsDuoResponse(resp, "auth") THEN ErrDecode
    ELSE OkString(resp.txid)

\* request_auth_status with `_ => Ok(None)` as the last arm of the match
RequestAuthStatusResultDefaultPending(resp) ==
    IF ~resp.delivered THEN ErrTransport
    ELSE IF resp.code # StatusOK
         THEN IF ~DecodesAsValue(resp) THEN ErrDecode
              ELSE ErrStatusCode(resp.code)
    ELSE IF ~DecodesAsDuoResponse(resp, "auth_status") THEN ErrDecode
    ELSE CASE resp.result = "allow" -> OkSome(TRUE)
           [] resp.result = "deny" -> OkSome(FALSE)
           [] OTHER -> OkNone

\* request_auth_status without the test of response.status()
RequestAuthStatusResultAnyStatus(resp) ==
    IF ~resp.delivered THEN ErrTransport
    ELSE IF ~DecodesAsDuoResponse(resp, "auth_status") THEN ErrDecode
    ELSE CASE resp.result = "waiting" -> OkNone
           [] resp.result = "allow" -> OkSome(TRUE)
           [] resp.result = "deny" -> OkSome(FALSE)
           [] OTHER -> ErrUnexpectedResult(resp.result)

\* request_auth_status, lines 196-217
RequestAuthStatusResult(resp) ==
    IF ~resp.delivered THEN ErrTransport
    ELSE IF resp.code # StatusOK
         THEN IF ~DecodesAsValue(resp) THEN ErrDecode
              ELSE ErrStatusCode(resp.code)
    ELSE IF ~DecodesAsDuoResponse(resp, "auth_status") THEN ErrDecode
    ELSE CASE resp.result = "waiting" -> OkNone
           [] resp.result = "allow" -> OkSome(TRUE)
           [] resp.result = "deny" -> OkSome(FALSE)
           [] OTHER -> ErrUnexpectedResult(resp.result)

\* stdout after the handling of resp
Println(out, resp) ==
    IF ErrBodyPrinted(resp) THEN Append(out, resp) ELSE out

(***************************************************************************)
(* The state after the program starts: no client built, no call made.      *)
(***************************************************************************)
Init ==
    /\ client = Unbuilt
    /\ pc = [c \in Calls |-> "idle"]
    /\ op = [c \in Calls |-> ""]
    /\ txid = [c \in Calls |-> ""]
    /\ status = [c \in Calls |-> NoResult]
    /\ result = [c \in Calls |-> NoResult]
    /\ inflight = [c \in Calls |-> <<>>]
    /\ last = [c \in Calls |-> NoResponse]
    /\ nStart = [c \in Calls |-> 0]
    /\ nStatus = [c \in Calls |-> 0]
    /\ hist = [c \in Calls |-> <<>>]
    /\ granted = [c \in Calls |-> ""]
    /\ polled = [c \in Calls |-> {}]
    /\ stdout = <<>>
    /\ paramSet = <<>>
    /\ signedReq = NoSigned
    /\ nReq = [c \in Calls |-> 0]
    /\ slept = [c \in Calls |-> 0]

\* client.execute(request): the request is in flight until it is answered
Execute(c, request) ==
    /\ inflight' = [inflight EXCEPT ![c] = Append(@, request)]
    /\ nReq' = [nReq EXCEPT ![c] = @ + 1]

\* the await of execute(..) and of json() ends: the request is answered
Answered(c, ep, resp) ==
    /\ inflight' = [inflight EXCEPT ![c] = Tail(@)]
    /\ last' = [last EXCEPT ![c] = [ep |-> ep, resp |-> resp]]
    /\ stdout' = Println(stdout, resp)

(***************************************************************************)
(* check                                                                   *)
(***************************************************************************)
Check(c) ==
    /\ client.state = "ok"
    /\ pc[c] = "idle"
    /\ op' = [op EXCEPT ![c] = "check"]
    /\ Execute(c, CheckRequest(client))
    /\ pc' = [pc EXCEPT ![c] = "check_wait"]
    /\ UNCHANGED <<client, txid, status, result, last, nStart, nStatus, hist,
                   granted, polled, stdout, signing,
                   slept>>

\* check sending its request once more after a transport failure
CheckRecvRetry(c) ==
    /\ pc[c] = "check_wait"
    /\ \E resp \in Responses("check", c) :
          IF ~resp.delivered /\ nReq[c] < 2
          THEN /\ last' = [last EXCEPT ![c] = [ep |-> "check", resp |-> resp]]
               /\ inflight' = [inflight EXCEPT
                                  ![c] = <<CheckRequest(client)>>]
               /\ nReq' = [nReq EXCEPT ![c] = @ + 1]
               /\ UNCHANGED <<pc, result, stdout>>
          ELSE /\ Answered(c, "check", resp)
               /\ result' = [result EXCEPT ![c] = CheckResult(resp)]
               /\ pc' = [pc EXCEPT ![c] = "done"]
               /\ nReq' = nReq
    /\ UNCHANGED <<client, op, txid, status, nStart, nStatus, hist, granted,
                   polled, signing, slept>>

CheckRecv(c) ==
    /\ pc[c] = "check_wait"
    /\ \E resp \in Responses("check", c) :
          /\ Answered(c, "check", resp)
          /\ result' = [result EXCEPT ![c] = CheckResult(resp)]
    /\ pc' = [pc EXCEPT ![c] = "done"]
    /\ UNCHANGED <<client, op, txid, status, nStart, nStatus, hist, granted,
                   polled, signing,
                   nReq, slept>>

(***************************************************************************)
(* preauth                                                                 *)
(***************************************************************************)
Preauth(c) ==
    /\ client.state = "ok"
    /\ pc[c] = "idle"
    /\ op' = [op EXCEPT ![c] = "preauth"]
    /\ \E user_id \in Users : Execute(c, PreauthRequest(client, user_id))
    /\ pc' = [pc EXCEPT ![c] = "preauth_wait"]
    /\ UNCHANGED <<client, txid, status, result, last, nStart, nStatus, hist,
                   granted, polled, stdout, signing,
                   slept>>

PreauthRecv(c) ==
    /\ pc[c] = "preauth_wait"
    /\ \E resp \in Responses("preauth", c) :
          /\ Answered(c, "preauth", resp)
          /\ result' = [result EXCEPT ![c] = PreauthResult(resp)]
    /\ pc' = [pc EXCEPT ![c] = "done"]
    /\ UNCHANGED <<client, op, txid, status, nStart, nStatus, hist, granted,
                   polled, signing,
                   nReq, slept>>

(***************************************************************************)
(* auth                                                                    *)
(***************************************************************************)
\* line 100 up to the await inside request_auth
Auth(c) ==
    /\ client.state = "ok"
    /\ pc[c] = "idle"
    /\ op' = [op EXCEPT ![c] = "auth"]
    /\ \E user_id \in Users, share_n \in ShareNs :
          Execute(c, AuthRequest(client, user_id, share_n))
    /\ nStart' = [nStart EXCEPT ![c] = @ + 1]
    /\ pc' = [pc EXCEPT ![c] = "auth_start_wait"]
    /\ UNCHANGED <<client, txid, status, result, last, nStatus, hist, granted,
                   polled, stdout, signing,
                   slept>>

\* request_auth returns, and the txid is kept in a slot every call reads
AuthStartRecvShared(c) ==
    /\ pc[c] = "auth_start_wait"
    /\ \E resp \in Responses("auth", c) :
          LET r == RequestAuthResult(resp) IN
          /\ Answered(c, "auth", resp)
          /\ IF r.kind = "err"
             THEN /\ result' = [result EXCEPT ![c] = r]
                  /\ pc' = [pc EXCEPT ![c] = "done"]
                  /\ UNCHANGED <<txid, granted>>
             ELSE /\ txid' = [d \in Calls |-> r.s]
                  /\ granted' = [granted EXCEPT ![c] = resp.txid]
                  /\ pc' = [pc EXCEPT ![c] = "auth_poll"]
                  /\ result' = result
    /\ UNCHANGED <<client, op, status, nStart, nStatus, hist, polled, signing,
                   nReq, slept>>

\* request_auth returns: `?` ends auth with its error, otherwise txid is bound
AuthStartRecv(c) ==
    /\ pc[c] = "auth_start_wait"
    /\ \E resp \in Responses("auth", c) :
          LET r == RequestAuthResult(resp) IN
          /\ Answered(c, "auth", resp)
          /\ IF r.kind = "err"
             THEN /\ result' = [result EXCEPT ![c] = r]
                  /\ pc' = [pc EXCEPT ![c] = "done"]
                  /\ UNCHANGED <<txid, granted>>
             ELSE /\ txid' = [txid EXCEPT ![c] = r.s]
                  /\ granted' = [granted EXCEPT ![c] = resp.txid]
                  /\ pc' = [pc EXCEPT ![c] = "auth_poll"]
                  /\ result' = result
    /\ UNCHANGED <<client, op, status, nStart, nStatus, hist, polled, signing,
                   nReq, slept>>

\* the txid kept in one slot shared by the calls instead of a local
PollTxidShared(c) ==
    IF \E d \in Calls : txid[d] # ""
    THEN txid[CHOOSE d \in Calls : txid[d] # ""]
    ELSE txid[c]

\* the txid a status poll of call c is made with: the local of line 100
PollTxid(c) == txid[c]

\* a poll sent whether or not the previous one was answered
AuthPollEager(c) ==
    /\ pc[c] \in {"auth_poll", "auth_status_wait"}
    /\ nStatus[c] <= MaxWaiting
    /\ Execute(c, AuthStatusRequest(client, PollTxid(c)))
    /\ nStatus' = [nStatus EXCEPT ![c] = @ + 1]
    /\ polled' = [polled EXCEPT ![c] = @ \cup {PollTxid(c)}]
    /\ pc' = [pc EXCEPT ![c] = "auth_status_wait"]
    /\ UNCHANGED <<client, op, txid, status, result, last, nStart, hist,
                   granted, stdout, signing,
                   slept>>

\* line 104 up to the await inside request_auth_status
AuthPoll(c) ==
    /\ pc[c] = "auth_poll"
    /\ Execute(c, AuthStatusRequest(client, PollTxid(c)))
    /\ nStatus' = [nStatus EXCEPT ![c] = @ + 1]
    /\ polled' = [polled EXCEPT ![c] = @ \cup {PollTxid(c)}]
    /\ pc' = [pc EXCEPT ![c] = "auth_status_wait"]
    /\ UNCHANGED <<client, op, txid, status, result, last, nStart, hist,
                   granted, stdout, signing,
                   slept>>

\* the loop with `Some(_) => return Ok(true)`
AuthMatchAlwaysTrue(st) ==
    IF st.kind = "err" THEN [pc |-> "done", result |-> st]
    ELSE IF st = OkNone THEN [pc |-> "auth_sleep", result |-> NoResult]
    ELSE [pc |-> "done", result |-> OkBool(TRUE)]

\* the loop polling again after a failed poll
AuthMatchRetry(st) ==
    IF st.kind = "err" \/ st = OkNone
    THEN [pc |-> "auth_sleep", result |-> NoResult]
    ELSE [pc |-> "done", result |-> OkBool(st.b)]

\* the loop with `None => return Ok(false)`
AuthMatchPendingIsDenied(st) ==
    IF st.kind = "err" THEN [pc |-> "done", result |-> st]
    ELSE IF st = OkNone THEN [pc |-> "done", result |-> OkBool(FALSE)]
    ELSE [pc |-> "done", result |-> OkBool(st.b)]

\* the loop with an empty `None` arm: it polls again at once
AuthMatchNoSleep(st) ==
    IF st.kind = "err" THEN [pc |-> "done", result |-> st]
    ELSE IF st = OkNone THEN [pc |-> "auth_poll", result |-> NoResult]
    ELSE [pc |-> "done", result |-> OkBool(st.b)]

\* lines 104-108: where auth goes with the value of request_auth_status
AuthMatch(st) ==
    IF st.kind = "err" THEN [pc |-> "done", result |-> st]
    ELSE IF st = OkNone THEN [pc |-> "auth_sleep", result |-> NoResult]
    ELSE [pc |-> "done", result |-> OkBool(st.b)]

\* request_auth_status returns.  The upstream leaves one call pending at
\* most MaxWaiting times.
AuthStatusRecv(c) ==
    /\ pc[c] = "auth_status_wait"
    /\ \E resp \in Responses("auth_status", c) :
          LET st == RequestAuthStatusResult(resp)
              m == AuthMatch(st)
          IN  /\ m.pc # "done" => Len(hist[c]) < MaxWaiting
              /\ Answered(c, "auth_status", resp)
              /\ hist' = [hist EXCEPT ![c] = Append(@, resp)]
              /\ status' = [status EXCEPT ![c] =
                               IF st.kind = "err" THEN @ ELSE st]
              /\ result' = [result EXCEPT ![c] = m.result]
              /\ pc' = [pc EXCEPT ![c] = m.pc]
              /\ slept' = [slept EXCEPT ![c] =
                              IF m.pc = "auth_sleep" THEN @ + SleepSecs
                              ELSE @]
    /\ UNCHANGED <<client, op, txid, nStart, nStatus, granted, polled, signing,
                   nReq>>

\* the loop giving up after its second poll was left pending
AuthWakeGiveUp(c) ==
    /\ pc[c] = "auth_sleep"
    /\ IF nStatus[c] >= 2
       THEN /\ pc' = [pc EXCEPT ![c] = "done"]
            /\ result' = [result EXCEPT ![c] =
                             R("err", "timed out", 0, "", FALSE)]
       ELSE /\ pc' = [pc EXCEPT ![c] = "auth_poll"]
            /\ result' = result
    /\ UNCHANGED <<client, op, txid, status, inflight, last, nStart,
                   nStatus, hist, granted, polled, stdout, signing,
                   nReq, slept>>

\* a sleep that never ends: the call stays where it is
AuthWakeNever(c) ==
    /\ pc[c] = "auth_sleep"
    /\ pc' = [pc EXCEPT ![c] = "auth_sleep"]
    /\ UNCHANGED <<client, op, txid, status, result, inflight, last, nStart,
                   nStatus, hist, granted, polled, stdout, signing,
                   nReq, slept>>

\* line 106: tokio::time::sleep(Duration::from_secs(2)) is over
AuthWake(c) ==
    /\ pc[c] = "auth_sleep"
    /\ pc' = [pc EXCEPT ![c] = "auth_poll"]
    /\ UNCHANGED <<client, op, txid, status, result, inflight, last, nStart,
                   nStatus, hist, granted, polled, stdout, signing,
                   nReq, slept>>

Next ==
    \/ New
    \/ \E c \in Calls : Check(c)
    \/ \E c \in Calls : CheckRecv(c)
    \/ \E c \in Calls : Preauth(c)
    \/ \E c \in Calls : PreauthRecv(c)
    \/ \E c \in Calls : Auth(c)
    \/ \E c \in Calls : AuthStartRecv(c)
    \/ \E c \in Calls : AuthPoll(c)
    \/ \E c \in Calls : AuthStatusRecv(c)
    \/ \E c \in Calls : AuthWake(c)

Spec == Init /\ [][Next]_vars

(***************************************************************************)
(* The fair specification: the runtime keeps polling a future that can     *)
(* make progress, and the transport answers every request, so an auth call *)
(* that can take its next step does take it.  That the upstream stops      *)
(* answering "waiting" is the guard of AuthStatusRecv.                     *)
(***************************************************************************)
Fairness ==
    \A c \in Calls :
        /\ WF_vars(AuthStartRecv(c))
        /\ WF_vars(AuthPoll(c))
        /\ WF_vars(AuthStatusRecv(c))
        /\ WF_vars(AuthWake(c))

FairSpec == Spec /\ Fairness

(***************************************************************************)
(* The signing specification: on a built client, a Parameters value is     *)
(* filled by set() with the parameters of request_auth in any order, and   *)
(* a request is built from it.                                             *)
(***************************************************************************)
Dates == {"Sun, 01 Nov 2026 02:00:00 +0000"}

\* the names request_auth sets, in the order of lines 146-152
AuthParamNames ==
    <<"user_id", "factor", "async", "type", "device", "display_username">>

\* the values set() is called with for each name (lines 146-152)
ParamValues(name) ==
    CASE name = "user_id" -> Users
      [] name = "factor" -> {"auto"}
      [] name = "async" -> {"1"}
      [] name = "type" -> {"Authorize share"}
      [] name = "device" -> {"auto"}
      [] name = "display_username" ->
            {"Share " \o ToString(n) : n \in ShareNs}

InitSign ==
    /\ client = NewOutcome("https://api-1234.duosecurity.com",
                           CHOOSE ik \in IKeys : TRUE,
                           CHOOSE sk \in SKeys : TRUE)
    /\ pc = [c \in Calls |-> "idle"]
    /\ op = [c \in Calls |-> ""]
    /\ txid = [c \in Calls |-> ""]
    /\ status = [c \in Calls |-> NoResult]
    /\ result = [c \in Calls |-> NoResult]
    /\ inflight = [c \in Calls |-> <<>>]
    /\ last = [c \in Calls |-> NoResponse]
    /\ nStart = [c \in Calls |-> 0]
    /\ nStatus = [c \in Calls |-> 0]
    /\ hist = [c \in Calls |-> <<>>]
    /\ granted = [c \in Calls |-> ""]
    /\ polled = [c \in Calls |-> {}]
    /\ stdout = <<>>
    /\ paramSet = <<>>
    /\ signedReq = NoSigned
    /\ nReq = [c \in Calls |-> 0]
    /\ slept = [c \in Calls |-> 0]

\* parameters.set(name, value)
SetParameter ==
    /\ ~signedReq.built
    /\ \E i \in 1..Len(AuthParamNames) :
          \E value \in ParamValues(AuthParamNames[i]) :
              paramSet' = ParametersSet(paramSet, AuthParamNames[i], value)
    /\ UNCHANGED <<client, pc, op, txid, status, result, inflight, last,
                   nStart, nStatus, hist, granted, polled, stdout, signedReq,
                   nReq, slept>>

\* DuoRequest::new(base_url, method, path, parameters).build(..)
BuildRequest ==
    /\ ~signedReq.built
    /\ \E date \in Dates :
          signedReq' = SignedRequest(client, date, "POST", "/auth/v2/auth",
                                     paramSet)
    /\ UNCHANGED <<client, pc, op, txid, status, result, inflight, last,
                   nStart, nStatus, hist, granted, polled, stdout, paramSet,
                   nReq, slept>>

NextSign == SetParameter \/ BuildRequest

SpecSign == InitSign /\ [][NextSign]_vars

TypeOK ==
    /\ client.state \in {"unbuilt", "ok", "err", "panic"}
    /\ \A c \in Calls :
          /\ pc[c] \in {"idle", "check_wait", "preauth_wait",
                        "auth_start_wait", "auth_poll", "auth_status_wait",
                        "auth_sleep", "done"}
          /\ op[c] \in {"", "check", "preauth", "auth"}
          /\ result[c].kind \in {"none", "ok", "err"}

(***************************************************************************)
(* Vocabulary of the properties.                                           *)
(***************************************************************************)
AuthCalls == {c \in Calls : op[c] = "auth"}

\* a 200 response whose body is a well-formed envelope with stat "OK" and
\* the payload of endpoint ep
WellFormed(resp, ep) ==
    /\ resp.delivered
    /\ resp.code = 200
    /\ resp.json
    /\ resp.stat = "OK"
    /\ resp.shape = ep

\* a 200 response whose body decodes into the envelope of endpoint ep
Decodable(resp, ep) ==
    /\ resp.delivered
    /\ resp.code = 200
    /\ resp.json
    /\ resp.stat # ""
    /\ resp.shape = ep

\* the upstream answered the polls with k "waiting" and then a terminal result
Scripted(h) ==
    /\ h # <<>>
    /\ \A i \in 1..Len(h) : WellFormed(h[i], "auth_status")
    /\ \A i \in 1..(Len(h) - 1) : h[i].result = "waiting"
    /\ h[Len(h)].result \in {"allow", "deny"}

PollsInFlight(c) ==
    Cardinality({i \in 1..Len(inflight[c]) :
                    inflight[c][i].path = "/auth/v2/auth_status"})

StartsInFlight(c) ==
    Cardinality({i \in 1..Len(inflight[c]) :
                    inflight[c][i].path = "/auth/v2/auth"})

Waiting == StatusBody(200, "OK", "waiting")
Allow == StatusBody(200, "OK", "allow")
Deny == StatusBody(200, "OK", "deny")

(***************************************************************************)
(* C1: when the start request succeeded and the upstream answered the      *)
(* status polls with k "waiting" results and then one terminal result,     *)
(* auth has issued exactly one start request and exactly k+1 status        *)
(* requests, and it has returned true for "allow" and false for "deny".    *)
(***************************************************************************)
C1_ScriptedPolling ==
    \A c \in AuthCalls :
        Scripted(hist[c]) =>
            /\ nStart[c] = 1
            /\ nStatus[c] = Len(hist[c])
            /\ inflight[c] = <<>>
            /\ pc[c] = "done"
            /\ result[c] = OkBool(hist[c][Len(hist[c])].result = "allow")

\* [waiting, waiting, allow] gave true and [deny] gave false
C1_Witness ==
    \E c, d \in AuthCalls :
        /\ hist[c] = <<Waiting, Waiting, Allow>>
        /\ nStart[c] = 1 /\ nStatus[c] = 3 /\ result[c] = OkBool(TRUE)
        /\ hist[d] = <<Deny>>
        /\ nStart[d] = 1 /\ nStatus[d] = 1 /\ result[d] = OkBool(FALSE)

(***************************************************************************)
(* C2: within one auth call no status poll is issued before the start      *)
(* request is answered, a poll is issued only when every earlier poll has  *)
(* been answered, and never are two polls of the call in flight.           *)
(***************************************************************************)
C2_SequentialPolls ==
    \A c \in AuthCalls :
        /\ PollsInFlight(c) <= 1
        /\ StartsInFlight(c) = 1 => nStatus[c] = 0 /\ last[c].ep = ""
        /\ nStatus[c] > 0 => StartsInFlight(c) = 0 /\ last[c].ep # ""
        /\ nStatus[c] = Len(hist[c]) + PollsInFlight(c)

\* a second poll is in flight after the first one was answered
C2_Witness ==
    \E c \in AuthCalls :
        /\ PollsInFlight(c) = 1
        /\ Len(hist[c]) = 1
        /\ nStatus[c] = 2

(***************************************************************************)
(* C3: a failed start request (transport error, non-200, undecodable body) *)
(* ends auth with an error and no status poll; a failed status poll (the   *)
(* same, or an unexpected result string) ends auth with an error, with no  *)
(* further poll and no second start request.                               *)
(***************************************************************************)
FailedResponse(resp, ep) == ~Decodable(resp, ep)

FailedPoll(resp) ==
    \/ FailedResponse(resp, "auth_status")
    \/ resp.result \notin {"waiting", "allow", "deny"}

C3_FailureAborts ==
    \A c \in AuthCalls :
        /\ (last[c].ep = "auth" /\ FailedResponse(last[c].resp, "auth")) =>
              /\ pc[c] = "done"
              /\ result[c].kind = "err"
              /\ nStart[c] = 1
              /\ nStatus[c] = 0
              /\ inflight[c] = <<>>
        /\ \A i \in 1..Len(hist[c]) :
              FailedPoll(hist[c][i]) =>
                  /\ i = Len(hist[c])
                  /\ pc[c] = "done"
                  /\ result[c].kind = "err"
                  /\ nStart[c] = 1
                  /\ nStatus[c] = i
                  /\ inflight[c] = <<>>

\* one call ended by a failed start, another by a failed second poll
C3_Witness ==
    \E c, d \in AuthCalls :
        /\ last[c] = [ep |-> "auth", resp |-> TransportFailure]
        /\ result[c] = ErrTransport
        /\ hist[d] = <<Waiting, StatusBody(200, "OK", "bogus")>>
        /\ result[d].kind = "err"

(***************************************************************************)
(* C4: auth never returns the pending outcome: what it returns is the      *)
(* boolean of an allowed or denied status result, or an error; after a     *)
(* pending status result auth has not returned and goes round the loop     *)
(* again.                                                                  *)
(***************************************************************************)
C4_PendingNeverReturned ==
    \A c \in AuthCalls :
        /\ pc[c] = "done" <=> result[c].kind # "none"
        /\ result[c].kind = "ok" =>
              /\ result[c].tag = "bool"
              /\ hist[c] # <<>>
              /\ hist[c][Len(hist[c])].result =
                    (IF result[c].b THEN "allow" ELSE "deny")
        /\ \A i \in 1..Len(hist[c]) :
              (Decodable(hist[c][i], "auth_status")
                    /\ hist[c][i].result = "waiting") =>
                  \/ i < Len(hist[c])
                  \/ /\ pc[c] \in {"auth_sleep", "auth_poll", "auth_status_wait"}
                     /\ result[c] = NoResult

\* a pending result was followed by another poll
C4_Witness ==
    \E c \in AuthCalls :
        /\ hist[c] = <<Waiting>>
        /\ pc[c] = "auth_status_wait"
        /\ nStatus[c] = 2

(***************************************************************************)
(* C5: for a 200 status response whose body decodes, request_auth_status   *)
(* gives None for "waiting", Some(true) for "allow", Some(false) for       *)
(* "deny", and for any other string the error "unexpected result" carrying *)
(* that string.                                                            *)
(***************************************************************************)
C5_ResultMapping ==
    \A c \in AuthCalls :
        (hist[c] # <<>> /\ Decodable(hist[c][Len(hist[c])], "auth_status")) =>
            LET r == hist[c][Len(hist[c])].result IN
            /\ r = "waiting" => status[c] = OkNone /\ result[c] = NoResult
            /\ r = "allow" => status[c] = OkSome(TRUE) /\ result[c].kind = "ok"
            /\ r = "deny" => status[c] = OkSome(FALSE) /\ result[c].kind = "ok"
            /\ r \notin {"waiting", "allow", "deny"} =>
                  result[c] = R("err", "unexpected result", 0, r, FALSE)

\* the fourth literal "bogus" came back as the error carrying it
C5_Witness ==
    \E c \in AuthCalls :
        /\ hist[c] = <<StatusBody(200, "OK", "bogus")>>
        /\ result[c] = R("err", "unexpected result", 0, "bogus", FALSE)

(***************************************************************************)
(* C6: on each of the four endpoints a response with an HTTP status other  *)
(* than 200 ends in the error "status code" carrying that status, whatever *)
(* the body is.                                                            *)
(***************************************************************************)
C6_NonOkIsStatusError ==
    \A c \in Calls :
        (last[c].ep # "" /\ last[c].resp.delivered
                /\ last[c].resp.code # 200) =>
            result[c] = R("err", "status code", last[c].resp.code, "", FALSE)

(***************************************************************************)
(* C7: a response whose envelope has stat "FAIL" ends the operation with   *)
(* an error, never with a success value and never with a further step of   *)
(* auth, also under HTTP 200 with a payload of the expected shape.         *)
(***************************************************************************)
C7_FailStatIsError ==
    \A c \in Calls :
        (last[c].ep # "" /\ last[c].resp.delivered /\ last[c].resp.json
                /\ last[c].resp.stat = "FAIL") =>
            /\ pc[c] = "done"
            /\ result[c].kind = "err"

(***************************************************************************)
(* C8: DuoClient::new on an api_domain without a host returns an error: it *)
(* neither panics nor yields a client, and the base URL of every client    *)
(* it yields has a non-empty host.                                         *)
(***************************************************************************)
HostlessDomains ==
    {"/auth/v2", "https://", "mailto:ops@example.com", "unix:/run/duo.sock"}

C8_NoHostIsError ==
    /\ client.state # "panic"
    /\ (client.state # "unbuilt" /\ client.api_domain \in HostlessDomains) =>
          client.state = "err" /\ client.err.kind = "err"
    /\ client.state = "ok" => client.base_url.host # ""

(***************************************************************************)
(* C9: no operation succeeds on a response whose HTTP status is not 200:   *)
(* check, preauth, the start request and the status poll all end in an     *)
(* error, the txid of a non-200 start response is never polled and the     *)
(* result of a non-200 status response never becomes the result of auth.   *)
(***************************************************************************)
NonOk(resp) == resp.delivered /\ resp.code # 200

C9_NonOkNeverSucceeds ==
    \A c \in Calls :
        /\ (last[c].ep # "" /\ NonOk(last[c].resp)) =>
              /\ pc[c] = "done"
              /\ result[c].kind = "err"
              /\ last[c].ep = "auth" =>
                    txid[c] = "" /\ nStatus[c] = 0 /\ polled[c] = {}
        /\ \A i \in 1..Len(hist[c]) :
              NonOk(hist[c][i]) => i = Len(hist[c]) /\ result[c].kind = "err"

\* a 400 status response carrying "allow" ended auth with an error, and a
\* 400 start response carrying a txid was not polled
C9_Witness ==
    \E c, d \in AuthCalls :
        /\ last[c].resp = StatusBody(400, "OK", "allow")
        /\ result[c].kind = "err"
        /\ last[d].resp = AuthBody(400, "OK", Txid(d))
        /\ result[d].kind = "err"

(***************************************************************************)
(* C10: every status poll of an auth call carries the txid that the call's *)
(* own start response returned, the same in every iteration, and never     *)
(* the txid of another call running on the same client.                    *)
(***************************************************************************)
C10_PollsCarryOwnTxid ==
    \A c \in AuthCalls :
        /\ nStatus[c] > 0 => granted[c] # "" /\ polled[c] = {granted[c]}
        /\ \A i \in 1..Len(inflight[c]) :
              inflight[c][i].path = "/auth/v2/auth_status" =>
                  Param(inflight[c][i], "txid") = granted[c]
        /\ \A d \in AuthCalls \ {c} :
              granted[d] # granted[c] => granted[d] \notin polled[c]

\* two calls poll at the same time, each with its own txid, one of them in
\* its second iteration
C10_Witness ==
    \E c, d \in AuthCalls :
        /\ c # d
        /\ granted[c] # granted[d]
        /\ PollsInFlight(c) = 1 /\ PollsInFlight(d) = 1
        /\ nStatus[c] = 2
        /\ polled[c] = {granted[c]} /\ polled[d] = {granted[d]}

(***************************************************************************)
(* C11: auth puts no limit of its own on the polling: whatever the number  *)
(* n of status results received, if all of them were "waiting" then auth   *)
(* has not returned, it is still in the polling loop, and the only request *)
(* it has issued beyond the n answered polls is the (n+1)-th poll.         *)
(***************************************************************************)
AllWaiting(h) ==
    /\ h # <<>>
    /\ \A i \in 1..Len(h) :
          Decodable(h[i], "auth_status") /\ h[i].result = "waiting"

C11_NoClientSideLimit ==
    \A c \in AuthCalls :
        AllWaiting(hist[c]) =>
            /\ pc[c] \in {"auth_sleep", "auth_poll", "auth_status_wait"}
            /\ result[c] = NoResult
            /\ nStart[c] = 1
            /\ pc[c] = "auth_status_wait" <=> nStatus[c] = Len(hist[c]) + 1
            /\ pc[c] # "auth_status_wait" => nStatus[c] = Len(hist[c])

\* after two "waiting" results the third poll is in flight
C11_Witness ==
    \E c \in AuthCalls :
        /\ hist[c] = <<Waiting, Waiting>>
        /\ pc[c] = "auth_status_wait"
        /\ nStatus[c] = 3

(***************************************************************************)
(* C12: once the client is built no step of any call changes its base URL, *)
(* integration key or secret key; a step of one call changes nothing that  *)
(* belongs to another call; and what a call has returned depends on its    *)
(* own operation and its own responses only: two calls of the same         *)
(* operation that received the same responses returned the same value.     *)
(***************************************************************************)
LocalsOf(c) ==
    <<pc[c], op[c], txid[c], status[c], result[c], inflight[c], last[c],
      nStart[c], nStatus[c], hist[c], granted[c], polled[c], nReq[c],
      slept[c]>>

OwnResponsesDecide ==
    \A c, d \in Calls :
        (/\ pc[c] = "done" /\ pc[d] = "done"
         /\ op[c] = op[d]
         /\ last[c] = last[d]
         /\ hist[c] = hist[d]) => result[c] = result[d]

ConfigFrame == client.state = "ok" => client' = client

CallFrame ==
    \A c, d \in Calls :
        (c # d /\ LocalsOf(c)' # LocalsOf(c)) => LocalsOf(d)' = LocalsOf(d)

C12_SharedConfigOnly ==
    /\ []OwnResponsesDecide
    /\ [][ConfigFrame /\ CallFrame]_vars

\* two auth calls are under way on the one client, each with its own txid
C12_Witness ==
    \E c, d \in AuthCalls :
        /\ c # d
        /\ client.state = "ok"
        /\ pc[c] = "auth_status_wait" /\ pc[d] = "auth_sleep"
        /\ txid[c] # "" /\ txid[d] # "" /\ txid[c] # txid[d]

(***************************************************************************)
(* C13: on a 200 response whose body is a well-formed envelope with stat   *)
(* "OK", check returns response.time, preauth returns the response payload *)
(* as it is, request_auth gives response.txid (which auth then polls       *)
(* with), and request_auth_status gives the outcome that response.result   *)
(* names.                                                                  *)
(***************************************************************************)
C13_PayloadRoundTrip ==
    \A c \in Calls :
        /\ (last[c].ep = "check" /\ WellFormed(last[c].resp, "check")) =>
              result[c] = R("ok", "u64", last[c].resp.time, "", FALSE)
        /\ (last[c].ep = "preauth" /\ WellFormed(last[c].resp, "preauth")) =>
              result[c] = R("ok", "String", 0, last[c].resp.preauth, FALSE)
        /\ (last[c].ep = "auth" /\ WellFormed(last[c].resp, "auth")) =>
              /\ txid[c] = last[c].resp.txid
              /\ result[c] = NoResult
        /\ granted[c] # "" => txid[c] = granted[c]
        /\ (hist[c] # <<>> /\ WellFormed(hist[c][Len(hist[c])], "auth_status")) =>
              LET r == hist[c][Len(hist[c])].result IN
              /\ r = "waiting" => status[c] = R("ok", "None", 0, "", FALSE)
              /\ r = "allow" => status[c] = R("ok", "Some", 0, "", TRUE)
              /\ r = "deny" => status[c] = R("ok", "Some", 0, "", FALSE)

\* check returned the time and preauth the payload of their envelopes
C13_Witness ==
    \E c, d \in Calls :
        /\ last[c] = [ep |-> "check",
                      resp |-> CheckBody(200, "OK", 1700000000)]
        /\ result[c].n = 1700000000
        /\ last[d] = [ep |-> "preauth", resp |-> PreauthBody(200, "OK", "auth")]
        /\ result[d].s = "auth"

(***************************************************************************)
(* C14: the secret key appears in no error value a call returns and in no  *)
(* line the client prints: every error is one of the four error values     *)
(* that the call's last response alone determines, and every printed line  *)
(* is the body of a response some call received.  Two runs that differ in  *)
(* the secret key only and receive the same responses therefore return     *)
(* the same errors and print the same lines.                               *)
(***************************************************************************)
ErrorsFrom(resp) ==
    {R("err", "transport", 0, "", FALSE),
     R("err", "decode", 0, "", FALSE),
     R("err", "status code", resp.code, "", FALSE),
     R("err", "unexpected result", 0, resp.result, FALSE)}

ShowsKey(resp, key) ==
    key \in {resp.stat, resp.shape, resp.txid, resp.result, resp.preauth}

RECURSIVE SetAll(_, _)
SetAll(parameters, pairs) ==
    IF pairs = <<>> THEN parameters
    ELSE SetAll(ParametersSet(parameters, Head(pairs)[1], Head(pairs)[2]),
                Tail(pairs))

\* the name/value pairs of parameters, taken in the order of request_auth
InSourceOrder(parameters) ==
    LET IsSet(name) == \E i \in 1..Len(parameters) : parameters[i][1] = name
        names == SelectSeq(AuthParamNames, IsSet)
    IN  [k \in 1..Len(names) |->
            parameters[CHOOSE i \in 1..Len(parameters) :
                           parameters[i][1] = names[k]]]

Reversed(pairs) == [i \in 1..Len(pairs) |-> pairs[Len(pairs) + 1 - i]]

\* the query string and signature of parameters are those signedReq holds
SameSigned(parameters) ==
    /\ CanonicalQuery(parameters) = signedReq.query
    /\ Signature(client, signedReq.date, signedReq.request.method,
                 signedReq.request.path, parameters) = signedReq.signature

C15_SignatureOrderIndependent ==
    signedReq.built =>
        /\ SameSigned(SetAll(<<>>, InSourceOrder(paramSet)))
        /\ SameSigned(SetAll(<<>>, Reversed(InSourceOrder(paramSet))))

\* the six parameters of request_auth, set in an order that is neither
\* that of the source nor the sorted one, were signed
C15_Witness ==
    /\ signedReq.built
    /\ paramSet = <<<<"display_username", "Share 1">>, <<"device", "auto">>,
                    <<"type", "Authorize share">>, <<"async", "1">>,
                    <<"factor", "auto">>, <<"user_id", "alice">>>>
    /\ paramSet # InSourceOrder(paramSet)
    /\ signedReq.query # CanonicalQueryUnsorted(paramSet)

(***************************************************************************)
(* C16: check and preauth issue exactly one HTTP request per invocation,   *)
(* whatever the outcome; the only request that is repeated is the status   *)
(* poll, and each poll but the first follows a pending result; a response  *)
(* that makes an error (transport failure, non-200 status, undecodable     *)
(* body, unexpected result) is the last thing its invocation receives:     *)
(* the invocation has returned, nothing of it is in flight and it has      *)
(* issued no request beyond those that were answered.                      *)
(***************************************************************************)
\* the responses call c has received so far
Received(c) ==
    IF last[c] = NoResponse THEN 0
    ELSE IF op[c] = "auth" THEN 1 + Len(hist[c])
    ELSE 1

\* what the operation of call c makes of the response it received last
LastOutcome(c) ==
    CASE last[c].ep = "check" -> CheckResult(last[c].resp)
      [] last[c].ep = "preauth" -> PreauthResult(last[c].resp)
      [] last[c].ep = "auth" -> RequestAuthResult(last[c].resp)
      [] last[c].ep = "auth_status" -> RequestAuthStatusResult(last[c].resp)
      [] OTHER -> NoResult

Pending(resp) == RequestAuthStatusResult(resp) = OkNone

NumPending(h) == Cardinality({i \in 1..Len(h) : Pending(h[i])})

C17_OneSleepBetweenPolls ==
    \A c \in Calls :
        /\ slept[c] = SleepSecs * NumPending(hist[c])
        /\ nStatus[c] = 0 => slept[c] = 0
        /\ pc[c] = "auth_sleep" =>
              /\ hist[c] # <<>>
              /\ Pending(hist[c][Len(hist[c])])
              /\ slept[c] = SleepSecs * nStatus[c]
        /\ pc[c] = "auth_poll" => slept[c] = SleepSecs * nStatus[c]
        /\ (pc[c] = "auth_status_wait" \/ (pc[c] = "done" /\ nStatus[c] > 0)) =>
              slept[c] = SleepSecs * (nStatus[c] - 1)
        /\ (pc[c] = "done" /\ hist[c] # <<>>) =>
              ~Pending(hist[c][Len(hist[c])])

\* an auth call that returned true at its third poll slept twice, and
\* another is asleep after its first poll
C17_Witness ==
    \E c, d \in AuthCalls :
        /\ pc[c] = "done"
        /\ result[c] = OkBool(TRUE)
        /\ nStatus[c] = 3
        /\ slept[c] = 2 * SleepSecs
        /\ pc[d] = "auth_sleep"
        /\ nStatus[d] = 1
        /\ slept[d] = SleepSecs

(***************************************************************************)
(* C18: under FairSpec every auth call that was invoked eventually         *)
(* returns, with true, false or an error; and a call that has returned     *)
(* stays returned with the same value, issues no further request and has   *)
(* nothing put in flight: Allowed, Denied and Error are absorbing.         *)
(***************************************************************************)
Returned(c) ==
    /\ pc[c] = "done"
    /\ \/ result[c] \in {OkBool(TRUE), OkBool(FALSE)}
       \/ result[c].kind = "err"

Absorbing ==
    \A c \in Calls :
        pc[c] = "done" => /\ pc'[c] = "done"
                          /\ result'[c] = result[c]
                          /\ nReq'[c] = nReq[c]
                          /\ inflight'[c] = inflight[c]

C18_AuthReturns ==
    /\ \A c \in Calls : (op[c] = "auth") ~> (op[c] = "auth" /\ Returned(c))
    /\ [][Absorbing]_vars

\* every auth call has returned: one denied after the upstream left it
\* pending as long as it does, one with an error
C18_Witness ==
    /\ \A c \in Calls : op[c] = "auth" /\ pc[c] = "done"
    /\ \E c \in Calls : /\ result[c] = OkBool(FALSE)
                        /\ Len(hist[c]) = MaxWaiting + 1
    /\ \E c \in Calls : result[c].kind = "err"

====
